---- MODULE Spec2Model ----
(***************************************************************************)
(* chimerascan: the chimera filter (pipeline/filter_chimeras.py), the     *)
(* pipeline driver run_chimerascan (chimerascan_run.py, both revisions of  *)
(* the repository), and the anchor rule and the homology search of the     *)
(* two stage functions the driver calls with its anchor and homology       *)
(* options, and the run configuration (RunConfig: command line, config     *)
(* file, XML document).                                                    *)
(***************************************************************************)
EXTENDS Integers, Sequences, FiniteSets, TLC

VARIABLES
    \* ---- filter_chimeras ----
    input_file,            \* lines of the input chimera file
    weighted_unique_frags, \* coverage threshold argument
    max_isize,             \* inner-distance limit argument
    false_pos_file,        \* lines of the false-positive file, or NoFile
    tmp_file,              \* lines of the temporary file, or NoFile
    output_file,           \* lines of the output file, or NoFile
    kept_chimeras,         \* names returned by get_highest_coverage_isoforms
    recollapsed,           \* names kept when the output is collapsed again
    fpc,                   \* position inside filter_chimeras
    \* ---- run_chimerascan ----
    driver,       \* "trunk" (trunk/chimerascan/chimerascan_run.py) or
                  \* "legacy" (chimerascan/chimerascan_run.py)
    keep_tmp,     \* runconfig.keep_tmp
    sample,       \* what the reads of the fastq files are like
    pc,           \* the stage the run is at; "idle" before, "done" after
    files,        \* the file system: path -> [exists, size, mtime, data]
    clock,        \* the time of the next write
    isize_dist,   \* the InsertSizeDistribution object of the run
    result,       \* how the run ended
    trace,        \* the stages of the run so far, each skipped, ok or fail
    failures,     \* stage functions that reported a failure so far
    runs,         \* runs started so far
    previous,     \* the result and the trace of the run before this one
    \* ---- merge_spanning_alignments ----
    anchor_min,        \* argument anchor_min
    anchor_length,     \* argument anchor_length
    anchor_mismatches, \* argument anchor_mismatches
    spanning_read,     \* the realigned read examined last
    spanning_frags,    \* spanning-fragment counter of the chimera record
    encomp_frags,      \* encompassing-fragment counter of the record
    reads_merged,      \* realigned reads examined so far
    \* ---- determine_chimera_breakpoints ----
    seq5p,               \* 5' partner sequence past the naive boundary
    seq3p,               \* 3' partner sequence before the naive boundary
    homology_mismatches, \* argument homology_mismatches
    homology,            \* the search: offset reached, mismatches, state
    \* ---- RunConfig ----
    argv,         \* the positional arguments of the command line
    options,      \* the options of the command line, as parsed
    config_file,  \* the document of --config, if the option is given
    runconfig,    \* the RunConfig object from_args fills
    cpc,          \* position inside from_args and after
    outcome,      \* how from_args ended
    xmlstring,    \* the document run_chimerascan writes (to_xml)
    reloaded      \* a RunConfig that loaded xmlstring

fvars == <<input_file, weighted_unique_frags, max_isize, false_pos_file,
           tmp_file, output_file, kept_chimeras, recollapsed, fpc>>

pvars == <<driver, keep_tmp, sample, pc, files, clock, isize_dist, result, trace,
           failures, runs, previous>>

mvars == <<anchor_min, anchor_length, anchor_mismatches, spanning_read,
           spanning_frags, encomp_frags, reads_merged>>

bvars == <<seq5p, seq3p, homology_mismatches, homology>>

cvars == <<argv, options, config_file, runconfig, cpc, outcome, xmlstring,
           reloaded>>

evars == <<mvars, bvars, cvars>>

vars == <<fvars, pvars, evars>>

\* the content of a path that holds no file
NoFile == << <<>> >>

\* ------------------------------------------------------------------------
\* Bounds of the model
\* ------------------------------------------------------------------------
MaxRecords == 2
MaxRuns == 2
MaxFailures == 1
\* config.ISIZE_MIN_SAMPLES and config.ISIZE_MAX_SAMPLES, scaled down
ISIZE_MIN_SAMPLES == 2
ISIZE_MAX_SAMPLES == 3
\* realigned reads examined by one merge
MaxReads == 2
\* length of a realigned read, position of the junction in the breakpoint
\* reference, and the mismatches the aligner lets a read have
ReadLength == 20
BreakpointPos == 30
MaxReadMismatches == 2
\* bases the homology search may scan, and the largest mismatch threshold
HomologyWindow == 4
MaxHomologyMismatches == 1
\* most positional arguments on the command line
MaxArgs == 4
\* largest number written in a configuration document
MaxNumber == 6

\* ------------------------------------------------------------------------
\* Program constants
\* ------------------------------------------------------------------------
DEFAULT_COV_WITHOUT_SPANNING == 3
DEFAULT_COV_WITH_SPANNING == 2
DEFAULT_ANCHOR_MIN == 4
DEFAULT_ANCHOR_LENGTH == 8
DEFAULT_ANCHOR_MISMATCHES == 0
JOB_SUCCESS == 0
JOB_ERROR == 1

\* ------------------------------------------------------------------------
\* The gene annotation of the index (the gene feature file read at
\* filter_chimeras.py:68 and :71).  A1 and A2 are isoforms of one locus
\* (cluster 1) whose transcript coordinates are shifted by two bases; B1 is
\* another locus (cluster 2).
\* ------------------------------------------------------------------------
tx_cluster_map == [t \in {"A1", "A2", "B1"} |->
                     IF t = "B1" THEN 2 ELSE 1]

tx_genome_map == [t \in {"A1", "A2", "B1"} |->
                     CASE t = "A1" -> 100
                       [] t = "A2" -> 98
                       [] OTHER    -> 500]

\* transcript position -> genome position (single-exon transcripts)
gene_to_genome_pos(tx_name, pos, genome_map) == genome_map[tx_name] + pos

\* ------------------------------------------------------------------------
\* Chimera records and their tab-delimited lines
\* ------------------------------------------------------------------------
\* A line of a chimera file: fields by position
\*  1 name, 2 tx5p, 3 end5p, 4 inner_dist5p, 5 tx3p, 6 start3p,
\*  7 inner_dist3p, 8 weighted unique frags, 9 spanning positions,
\*  10 weighted cov, 11 frags
\* a line that loses the weighted coverage of its record
to_list_DropCov(c) == <<c.name, c.partner5p.tx_name, c.partner5p.end,
                        c.partner5p.inner_dist, c.partner3p.tx_name,
                        c.partner3p.start, c.partner3p.inner_dist,
                        c.weighted_unique_frags, c.spanning, 0, c.frags>>

to_list(c) == <<c.name, c.partner5p.tx_name, c.partner5p.end,
                c.partner5p.inner_dist, c.partner3p.tx_name,
                c.partner3p.start, c.partner3p.inner_dist,
                c.weighted_unique_frags, c.spanning, c.weighted_cov,
                c.frags>>

parse_line(l) == [name |-> l[1],
                  partner5p |-> [tx_name |-> l[2], end |-> l[3],
                                 inner_dist |-> l[4]],
                  partner3p |-> [tx_name |-> l[5], start |-> l[6],
                                 inner_dist |-> l[7]],
                  weighted_unique_frags |-> l[8],
                  spanning |-> l[9],
                  weighted_cov |-> l[10],
                  frags |-> l[11]]

\* Chimera.parse(open(f)): the records of a file, in file order
Parse(file) == [i \in 1..Len(file) |-> parse_line(file[i])]

\* ------------------------------------------------------------------------
\* The record predicates
\* ------------------------------------------------------------------------
filter_weighted_frags(c, threshold) == c.weighted_unique_frags >= threshold

\* the inner-distance test with the limit itself rejected
filter_inner_dist_Strict(c, isize) ==
    IF isize <= 0 THEN TRUE
    ELSE IF c.partner5p.inner_dist >= isize THEN FALSE
    ELSE IF c.partner3p.inner_dist >= isize THEN FALSE
    ELSE TRUE

filter_inner_dist(c, isize) ==
    IF isize <= 0 THEN TRUE
    ELSE IF c.partner5p.inner_dist > isize THEN FALSE
    ELSE IF c.partner3p.inner_dist > isize THEN FALSE
    ELSE TRUE

\* read_false_pos_file: the set of (tx5p, end5p, tx3p, start3p) tuples
read_false_pos_file(file) == {file[i] : i \in 1..Len(file)}

FalsePosPairs(fp) ==
    IF fp # NoFile THEN read_false_pos_file(fp) ELSE {}

false_pos_key(c) == <<c.partner5p.tx_name, c.partner5p.end,
                      c.partner3p.tx_name, c.partner3p.start>>

\* the first pass without the false-positive test
Good_NoFalsePos(c, threshold, isize, false_pos_pairs) ==
    /\ filter_weighted_frags(c, threshold)
    /\ filter_inner_dist(c, isize)

\* the three tests of the first pass over the input (lines 129-133)
Good(c, threshold, isize, false_pos_pairs) ==
    /\ filter_weighted_frags(c, threshold)
    /\ filter_inner_dist(c, isize)
    /\ false_pos_key(c) \notin false_pos_pairs

\* ------------------------------------------------------------------------
\* Isoform collapse
\* ------------------------------------------------------------------------
\* the file written by printing, in order, the records of cs whose
\* position is in keep (print >>f, '\t'.join(map(str, c.to_list())))
RECURSIVE WriteFrom(_, _, _)
WriteFrom(cs, i, keep) ==
    IF i > Len(cs) THEN <<>>
    ELSE IF i \in keep THEN <<to_list(cs[i])>> \o WriteFrom(cs, i + 1, keep)
    ELSE WriteFrom(cs, i + 1, keep)

WriteLines_LastFirst(cs, keep) ==
    LET w == WriteFrom(cs, 1, keep)
    IN [i \in 1..Len(w) |-> w[Len(w) + 1 - i]]

WriteLines(cs, keep) == WriteFrom(cs, 1, keep)

\* the statistics of a record, without its name (stats_info[1:])
StatsKey(c) == <<c.spanning, c.weighted_cov, c.frags>>

\* key of cluster_chimera_dict
ClusterKey(c) ==
    <<tx_cluster_map[c.partner5p.tx_name],
      tx_cluster_map[c.partner3p.tx_name],
      gene_to_genome_pos(c.partner5p.tx_name, c.partner5p.end - 1,
                         tx_genome_map),
      gene_to_genome_pos(c.partner3p.tx_name, c.partner3p.start,
                         tx_genome_map)>>

\* Python's order on tuples of equal length
TupleLess(a, b) ==
    \E i \in 1..Len(a) :
        /\ a[i] < b[i]
        /\ \A j \in 1..(i - 1) : a[j] = b[j]

\* sorted(keys)[0]: the sort without reverse=True
HighestKey_Ascending(keys) == CHOOSE k \in keys : \A j \in keys : ~TupleLess(j, k)

\* sorted(keys, reverse=True)[0]
HighestKey(keys) == CHOOSE k \in keys : \A j \in keys : ~TupleLess(k, j)

\* sorted_keys[:-1]: every key but the last of the sorted list
KeptKeys_AllButLast(keys) ==
    keys \ {CHOOSE k \in keys : \A j \in keys : ~TupleLess(j, k)}

\* every key of the cluster
KeptKeys_All(keys) == keys

\* the stats keys whose names are kept within one cluster
KeptKeys(keys) == {HighestKey(keys)}

get_highest_coverage_isoforms(file) ==
    LET cs == Parse(file)
        idx == 1..Len(file)
        clusters == {ClusterKey(cs[i]) : i \in idx}
        stats_list(k) == {i \in idx : ClusterKey(cs[i]) = k}
        kept(k) == LET keys == {StatsKey(cs[i]) : i \in stats_list(k)}
                   IN {cs[i].name : i \in
                         {j \in stats_list(k) : StatsKey(cs[j]) \in KeptKeys(keys)}}
    IN UNION {kept(k) : k \in clusters}

\* ------------------------------------------------------------------------
\* filter_chimeras, in the order of its statements
\* ------------------------------------------------------------------------
\* lines 114-138: parse the false positives, write the passing records to
\* the temporary file
FirstPass ==
    /\ fpc = "start"
    /\ LET cs == Parse(input_file)
           fps == FalsePosPairs(false_pos_file)
           keep == {i \in 1..Len(input_file) :
                       Good(cs[i], weighted_unique_frags, max_isize, fps)}
       IN tmp_file' = WriteLines(cs, keep)
    /\ fpc' = "filtered"
    /\ UNCHANGED <<input_file, weighted_unique_frags, max_isize,
                   false_pos_file, output_file, kept_chimeras, recollapsed>>
    /\ UNCHANGED <<pvars, evars>>

\* a second pass that ranks the records of the unfiltered input
SecondPass_RanksInput ==
    /\ fpc = "filtered"
    /\ LET kept == get_highest_coverage_isoforms(input_file)
           cs == Parse(input_file)
           passed == {tmp_file[i][1] : i \in 1..Len(tmp_file)}
           keep == {i \in 1..Len(input_file) :
                       cs[i].name \in kept \cap passed}
       IN /\ kept_chimeras' = kept
          /\ output_file' = WriteLines(cs, keep)
    /\ tmp_file' = NoFile
    /\ fpc' = "returned"
    /\ UNCHANGED <<input_file, weighted_unique_frags, max_isize,
                   false_pos_file, recollapsed>>
    /\ UNCHANGED <<pvars, evars>>

\* a second pass that leaves the temporary file behind
SecondPass_KeepsTmp ==
    /\ fpc = "filtered"
    /\ LET kept == get_highest_coverage_isoforms(tmp_file)
           cs == Parse(input_file)
           keep == {i \in 1..Len(input_file) : cs[i].name \in kept}
       IN /\ kept_chimeras' = kept
          /\ output_file' = WriteLines(cs, keep)
    /\ fpc' = "returned"
    /\ UNCHANGED <<input_file, weighted_unique_frags, max_isize,
                   false_pos_file, recollapsed, tmp_file>>
    /\ UNCHANGED <<pvars, evars>>

\* lines 143-156: collapse isoforms, write the kept records of the input
\* to the output file, remove the temporary file
SecondPass ==
    /\ fpc = "filtered"
    /\ LET kept == get_highest_coverage_isoforms(tmp_file)
           cs == Parse(input_file)
           keep == {i \in 1..Len(input_file) : cs[i].name \in kept}
       IN /\ kept_chimeras' = kept
          /\ output_file' = WriteLines(cs, keep)
    /\ tmp_file' = NoFile
    /\ fpc' = "returned"
    /\ UNCHANGED <<input_file, weighted_unique_frags, max_isize,
                   false_pos_file, recollapsed>>
    /\ UNCHANGED <<pvars, evars>>

\* get_highest_coverage_isoforms applied to the collapsed output
Recollapse ==
    /\ fpc = "returned"
    /\ recollapsed' = get_highest_coverage_isoforms(output_file)
    /\ fpc' = "recollapsed"
    /\ UNCHANGED <<input_file, weighted_unique_frags, max_isize,
                   false_pos_file, tmp_file, output_file, kept_chimeras>>
    /\ UNCHANGED <<pvars, evars>>

\* ------------------------------------------------------------------------
\* merge_spanning_alignments: the anchor rule
\* ------------------------------------------------------------------------
NoRead == [pos |-> 0, aend |-> 0, mismatches |-> 0]

\* bases of the read on the 5' side and on the 3' side of the junction
LeftAnchor(r) == BreakpointPos - r.pos
RightAnchor(r) == r.aend - BreakpointPos

Min(a, b) == IF a <= b THEN a ELSE b
Max(a, b) == IF a >= b THEN a ELSE b

\* an anchor rule that looks at the longer side of the read
SpanningAccepted_LongSide(r, amin, alen, amm) ==
    LET anchor == Max(LeftAnchor(r), RightAnchor(r))
    IN IF anchor < amin THEN FALSE
       ELSE IF anchor < alen THEN r.mismatches <= amm
       ELSE TRUE

\* the read is spanning evidence: its shorter anchor reaches anchor_min,
\* and an anchor shorter than anchor_length tolerates anchor_mismatches
\* mismatches only
SpanningAccepted(r, amin, alen, amm) ==
    LET anchor == Min(LeftAnchor(r), RightAnchor(r))
    IN IF anchor < amin THEN FALSE
       ELSE IF anchor < alen THEN r.mismatches <= amm
       ELSE TRUE

\* the realigned reads that cross the junction: start positions that leave
\* anchors between 1 base and ReadLength - 1 bases, and every mismatch
\* count the aligner lets through
SpanningReads ==
    {[pos |-> BreakpointPos - a, aend |-> BreakpointPos - a + ReadLength,
      mismatches |-> m] :
        a \in {1, 3, 4, 6, 7, 8, 10, 12, 14, 16, 17, 19},
        m \in 0..MaxReadMismatches}

\* one realigned read is examined and counted if accepted
MergeSpanningRead ==
    /\ reads_merged < MaxReads
    /\ \E r \in SpanningReads :
          /\ spanning_read' = r
          /\ spanning_frags' =
                IF SpanningAccepted(r, anchor_min, anchor_length,
                                    anchor_mismatches)
                THEN spanning_frags + 1 ELSE spanning_frags
    /\ reads_merged' = reads_merged + 1
    /\ UNCHANGED <<anchor_min, anchor_length, anchor_mismatches, encomp_frags>>
    /\ UNCHANGED <<fvars, pvars, bvars, cvars>>

\* the merge is not running
MergeIdle ==
    /\ anchor_min = DEFAULT_ANCHOR_MIN
    /\ anchor_length = DEFAULT_ANCHOR_LENGTH
    /\ anchor_mismatches = DEFAULT_ANCHOR_MISMATCHES
    /\ spanning_read = NoRead
    /\ spanning_frags = 0
    /\ encomp_frags = 0
    /\ reads_merged = 0

\* ------------------------------------------------------------------------
\* determine_chimera_breakpoints: the homology search
\* ------------------------------------------------------------------------
Bases == {"A", "C"}

\* mismatches between the two partners within the first n bases
RECURSIVE Mismatches(_, _, _)
Mismatches(a, b, n) ==
    IF n = 0 THEN 0
    ELSE Mismatches(a, b, n - 1) + (IF a[n] = b[n] THEN 0 ELSE 1)

\* a bound that tolerates one mismatch more than configured
Exceeds_Lenient(mm, threshold) == mm > threshold + 1

\* the mismatch count is beyond the configured threshold
Exceeds(mm, threshold) == mm > threshold

\* one step of the scan: compare the next base of the two partners and
\* accept the extension unless the cumulative mismatch count exceeds
\* homology_mismatches; stop there, or at the end of the window.  A search
\* that accepted nothing keeps the record with homology length 0, flagged
\* low confidence
ExtendHomology ==
    /\ homology.state = "scanning"
    /\ LET k == homology.len + 1
           mm == homology.mismatches
                    + (IF k <= HomologyWindow /\ seq5p[k] # seq3p[k]
                       THEN 1 ELSE 0)
       IN IF k > HomologyWindow \/ Exceeds(mm, homology_mismatches)
          THEN homology' = [homology EXCEPT
                               !.state = "done",
                               !.low_confidence = (homology.len = 0)]
          ELSE homology' = [homology EXCEPT !.len = k, !.mismatches = mm]
    /\ UNCHANGED <<seq5p, seq3p, homology_mismatches>>
    /\ UNCHANGED <<fvars, pvars, mvars, cvars>>

\* the search is not running
BreakpointIdle ==
    /\ seq5p = <<>>
    /\ seq3p = <<>>
    /\ homology_mismatches = 0
    /\ homology = [len |-> 0, mismatches |-> 0, low_confidence |-> FALSE,
                   state |-> "idle"]

\* ------------------------------------------------------------------------
\* RunConfig: values, the XML document, the command line
\* ------------------------------------------------------------------------
\* Python values: None, an int, a float, a str.  A float is held as the
\* value it has when rounded to 12 significant digits (n) and what lies
\* beyond the 12th digit (e, 0 for nothing).
None == [t |-> "None", n |-> 0, e |-> 0, s |-> ""]
PyInt(n) == [t |-> "int", n |-> n, e |-> 0, s |-> ""]
PyFloat(n, e) == [t |-> "float", n |-> n, e |-> e, s |-> ""]
PyStr(s) == [t |-> "str", n |-> 0, e |-> 0, s |-> s]
\* the conversion raised ValueError
ValueError == [t |-> "ValueError", n |-> 0, e |-> 0, s |-> ""]

Numeric(val) == val.t \in {"int", "float"}

\* a != b
NotEqual(a, b) ==
    IF Numeric(a) /\ Numeric(b) THEN a.n # b.n \/ a.e # b.e
    ELSE a # b

\* the numbers whose numerals occur in the documents
Numerals == 0..MaxNumber

\* str(val), as Python 2 prints it: a float with 12 significant digits
str(val) ==
    CASE val.t = "int" -> ToString(val.n)
      [] val.t = "float" -> ToString(val.n) \o ".0"
      [] val.t = "str" -> val.s
      [] OTHER -> val.t

\* int(val) of an int or of the text of an element
int(val) ==
    CASE val.t = "int" -> val
      [] val.t = "float" -> PyInt(val.n)
      [] val.t = "str" ->
           IF \E n \in Numerals : ToString(n) = val.s
           THEN PyInt(CHOOSE n \in Numerals : ToString(n) = val.s)
           ELSE ValueError
      [] OTHER -> ValueError

\* float(val) of a number or of the text of an element
float(val) ==
    CASE val.t = "int" -> PyFloat(val.n, 0)
      [] val.t = "float" -> val
      [] val.t = "str" ->
           IF \E n \in Numerals : val.s \in {ToString(n), ToString(n) \o ".0"}
           THEN PyFloat(CHOOSE n \in Numerals :
                           val.s \in {ToString(n), ToString(n) \o ".0"}, 0)
           ELSE ValueError
      [] OTHER -> ValueError

DEFAULT_BOWTIE_ARGS == "--best --strata"

\* RunConfig.attrs: name, type and built-in default of the optional
\* attributes (one of each type but parse_bool)
attrs == <<[attrname |-> "bowtie_args", attrtype |-> "str",
            attrdefault |-> PyStr(DEFAULT_BOWTIE_ARGS)],
           [attrname |-> "anchor_min", attrtype |-> "int",
            attrdefault |-> PyInt(DEFAULT_ANCHOR_MIN)],
           [attrname |-> "filter_cov_wo_spanning", attrtype |-> "float",
            attrdefault |-> PyInt(DEFAULT_COV_WITHOUT_SPANNING)]>>

AttrNames == {attrs[i].attrname : i \in 1..Len(attrs)}
Attr(a) == attrs[CHOOSE i \in 1..Len(attrs) : attrs[i].attrname = a]

\* attrtype(val)
Convert(attrtype, val) ==
    CASE attrtype = "int" -> int(val)
      [] attrtype = "float" -> float(val)
      [] attrtype = "str" -> PyStr(str(val))

\* an element of the document with its text, and an element that is absent
Elem(text) == [present |-> TRUE, text |-> text]
NoElem == [present |-> FALSE, text |-> ""]

\* root.findtext(path, default)
findtext(elem, default) == IF elem.present THEN PyStr(elem.text) ELSE default

\* the text of the element a str or None is assigned to
ElemText(val) == IF val.t = "None" THEN "" ELSE val.s

\* RunConfig.__init__
NewRunConfig ==
    [output_dir |-> None,
     fastq_files |-> [none |-> TRUE, files |-> <<>>],
     index_dir |-> None,
     attr |-> [a \in AttrNames |-> None]]

\* RunConfig.from_xml: the attributes after the document is loaded
from_xml(root) ==
    LET fastq_files(mate) ==
           (CHOOSE el \in {root.fastq_files[i] :
                              i \in 1..Len(root.fastq_files)} :
               el.mate = mate).text
    IN [output_dir |-> findtext(root.output_dir, None),
        fastq_files |->
           [none |-> FALSE,
            files |-> [m \in 1..Len(root.fastq_files) |-> fastq_files(m - 1)]],
        index_dir |-> findtext(root.index, None),
        attr |-> [a \in AttrNames |->
                    Convert(Attr(a).attrtype,
                            findtext(root.attr[a], Attr(a).attrdefault))]]

\* RunConfig.to_xml: the document of the attributes
to_xml(rc) ==
    [output_dir |-> Elem(ElemText(rc.output_dir)),
     fastq_files |-> [i \in 1..Len(rc.fastq_files.files) |->
                        [mate |-> i - 1, text |-> rc.fastq_files.files[i]]],
     index |-> Elem(ElemText(rc.index_dir)),
     attr |-> [a \in AttrNames |-> Elem(str(rc.attr[a]))]]

\* no --config option, and no document written yet
NoXml == [given |-> FALSE,
          root |-> [output_dir |-> NoElem, fastq_files |-> <<>>,
                    index |-> NoElem, attr |-> [a \in AttrNames |-> NoElem]]]
Xml(root) == [given |-> TRUE, root |-> root]

Override_ConfigWins(current, option, attrdefault) ==
    IF current = None THEN option ELSE current

\* the value an optional attribute is left with by from_args
Override(current, option, attrdefault) ==
    IF current = None \/ NotEqual(option, attrdefault) THEN option
    ELSE current

\* ------------------------------------------------------------------------
\* RunConfig.from_args, and the configuration written and read again
\* ------------------------------------------------------------------------
\* options.config_file is not None: self.from_xml(options.config_file)
LoadConfigFile ==
    /\ cpc = "from_args"
    /\ runconfig' = IF config_file.given THEN from_xml(config_file.root)
                    ELSE NewRunConfig
    /\ cpc' = "positional"
    /\ UNCHANGED <<argv, options, config_file, outcome, xmlstring, reloaded>>
    /\ UNCHANGED <<fvars, pvars, mvars, bvars>>

\* the required values not found in the config file are taken from the
\* positional arguments
PositionalArgs ==
    /\ cpc = "positional"
    /\ LET n == Len(argv)
           needs_index == runconfig.index_dir = None
           needs_fastq == runconfig.fastq_files.none
           needs_output == runconfig.output_dir = None
           index_dir == IF needs_index THEN PyStr(argv[1])
                        ELSE runconfig.index_dir
           fastq_files == IF needs_fastq
                          THEN [none |-> FALSE,
                                files |-> SubSeq(argv, 2, Min(3, n))]
                          ELSE runconfig.fastq_files
           output_dir == IF needs_output THEN PyStr(argv[4])
                         ELSE runconfig.output_dir
       IN IF needs_index /\ n < 1
          THEN /\ outcome' = "IndexError"
               /\ cpc' = "done"
               /\ UNCHANGED runconfig
          ELSE IF needs_fastq /\ n < 2
          THEN /\ outcome' = "parser.error: fastq files not specified"
               /\ cpc' = "done"
               /\ runconfig' = [runconfig EXCEPT !.index_dir = index_dir]
          ELSE IF needs_output /\ n < 3
          THEN /\ outcome' = "parser.error: output dir not specified"
               /\ cpc' = "done"
               /\ runconfig' = [runconfig EXCEPT !.index_dir = index_dir,
                                                 !.fastq_files = fastq_files]
          ELSE IF needs_output /\ n < 4
          THEN /\ outcome' = "IndexError"
               /\ cpc' = "done"
               /\ runconfig' = [runconfig EXCEPT !.index_dir = index_dir,
                                                 !.fastq_files = fastq_files]
          ELSE /\ outcome' = outcome
               /\ cpc' = "optional"
               /\ runconfig' = [runconfig EXCEPT !.index_dir = index_dir,
                                                 !.fastq_files = fastq_files,
                                                 !.output_dir = output_dir]
    /\ UNCHANGED <<argv, options, config_file, xmlstring, reloaded>>
    /\ UNCHANGED <<fvars, pvars, mvars, bvars>>

\* the optional attributes: the option of the command line overrides an
\* attribute that is undefined, or when it is not the default
OptionalArgs ==
    /\ cpc = "optional"
    /\ runconfig' = [runconfig EXCEPT !.attr =
                        [a \in AttrNames |->
                            Override(runconfig.attr[a], options[a],
                                     Attr(a).attrdefault)]]
    /\ outcome' = "returned"
    /\ cpc' = "configured"
    /\ UNCHANGED <<argv, options, config_file, xmlstring, reloaded>>
    /\ UNCHANGED <<fvars, pvars, mvars, bvars>>

\* run_chimerascan writes runconfig.to_xml() to the output directory
WriteRunConfig ==
    /\ cpc = "configured"
    /\ xmlstring' = Xml(to_xml(runconfig))
    /\ cpc' = "written"
    /\ UNCHANGED <<argv, options, config_file, runconfig, outcome, reloaded>>
    /\ UNCHANGED <<fvars, pvars, mvars, bvars>>

\* a new RunConfig loads the document written
ReloadRunConfig ==
    /\ cpc = "written"
    /\ reloaded' = from_xml(xmlstring.root)
    /\ cpc' = "reloaded"
    /\ UNCHANGED <<argv, options, config_file, runconfig, outcome, xmlstring>>
    /\ UNCHANGED <<fvars, pvars, mvars, bvars>>

\* from_args has not been called
ConfigIdle ==
    /\ argv = <<>>
    /\ options = [a \in AttrNames |-> Attr(a).attrdefault]
    /\ config_file = NoXml
    /\ runconfig = NewRunConfig
    /\ cpc = "idle"
    /\ outcome = "none"
    /\ xmlstring = NoXml
    /\ reloaded = NewRunConfig

\* ------------------------------------------------------------------------
\* run_chimerascan: files
\* ------------------------------------------------------------------------
Absent == [exists |-> FALSE, size |-> 0, mtime |-> 0, data |-> 0]
Written(t, d) == [exists |-> TRUE, size |-> 1, mtime |-> t, data |-> d]

InputFastq == {"fastq_1", "fastq_2"}
Dirs == {"output_dir", "log_dir", "tmp_dir"}
\* files of the output directory
OutputDirFiles == {"runconfig_xml", "aligned_bam", "sorted_bam", "sorted_bai",
                   "isize_dist_file", "chimera_output"}
\* files of the tmp directory
TmpDirFiles == {"unaligned_fastq_1", "unaligned_fastq_2", "realigned_bam",
                "gene_paired_bam", "genome_paired_bam",
                "realigned_unmapped_bam", "realigned_complex_bam",
                "encompassing_chimera", "breakpoint_chimera",
                "breakpoint_map", "breakpoint_fasta", "breakpoint_index",
                "encomp_spanning_fastq", "unaligned_spanning_fastq",
                "encomp_spanning_bam", "unaligned_spanning_bam",
                "spanning_fastq", "spanning_bam",
                "spanning_chimera", "filtered_chimera"}
Paths == InputFastq \cup Dirs \cup OutputDirFiles \cup TmpDirFiles

\* the reads of a run: "chimeric" reads leave unaligned reads and chimera
\* candidates at every stage; when every read pair aligns in the first
\* alignment ("all_aligned") nothing is left for the later stages
Samples == {"chimeric", "all_aligned"}

\* the files that hold no read and no candidate, and are written with size
\* 0, for a sample
EmptyOutputs(smp) ==
    IF smp = "all_aligned"
    THEN {"unaligned_fastq_1", "unaligned_fastq_2", "encompassing_chimera",
          "breakpoint_chimera", "breakpoint_map", "breakpoint_fasta",
          "encomp_spanning_fastq", "unaligned_spanning_fastq",
          "spanning_fastq", "spanning_chimera", "filtered_chimera"}
    ELSE {}

\* file f as the function of its stage writes it at time t
WrittenBy(f, smp, t) ==
    [exists |-> TRUE, size |-> IF f \in EmptyOutputs(smp) THEN 0 ELSE 1,
     mtime |-> t, data |-> 0]

up_to_date_Strict(fs, outfile, infile) ==
    IF ~fs[infile].exists THEN FALSE
    ELSE IF ~fs[outfile].exists THEN FALSE
    ELSE IF fs[outfile].size = 0 THEN FALSE
    ELSE fs[outfile].mtime > fs[infile].mtime

\* up_to_date(outfile, infile)
up_to_date(fs, outfile, infile) ==
    IF ~fs[infile].exists THEN FALSE
    ELSE IF ~fs[outfile].exists THEN FALSE
    ELSE IF fs[outfile].size = 0 THEN FALSE
    ELSE fs[outfile].mtime >= fs[infile].mtime

\* ------------------------------------------------------------------------
\* run_chimerascan: the stages of the two drivers, in program order
\* ------------------------------------------------------------------------
TrunkStages == <<"align", "sort", "index", "isize", "realign", "discordant",
                 "nominate", "breakpoints", "bowtie_build",
                 "extract_encomp", "extract_unmapped", "align_encomp",
                 "align_unmapped", "merge", "filter", "write_output",
                 "cleanup">>

LegacyStages == <<"align", "isize", "realign", "discordant", "nominate",
                  "breakpoints", "bowtie_build", "extract", "align_spanning",
                  "merge", "return">>

StageSeq(d) == IF d = "trunk" THEN TrunkStages ELSE LegacyStages

StageIndex(d, s) == CHOOSE i \in 1..Len(StageSeq(d)) : StageSeq(d)[i] = s

\* a driver that enters the realignment a second time
NextStage_Retry(d, s) ==
    IF s = "realign" /\ \A i \in 1..Len(trace) : trace[i].stage # "realign"
    THEN "realign"
    ELSE StageSeq(d)[StageIndex(d, s) + 1]

\* the statement after stage s
NextStage(d, s) == StageSeq(d)[StageIndex(d, s) + 1]

\* a [SKIPPED] merge that continues after the filter
AfterSkip_PastFilter(d, s) ==
    IF d = "trunk" /\ s = "extract_encomp" THEN "align_encomp"
    ELSE IF d = "trunk" /\ s = "merge" THEN "write_output"
    ELSE NextStage(d, s)

\* where the [SKIPPED] branch of stage s continues: the trunk's extraction
\* of spanning reads makes its two calls under one up_to_date test
AfterSkip(d, s) ==
    IF d = "trunk" /\ s = "extract_encomp" THEN "align_encomp"
    ELSE NextStage(d, s)

\* the up_to_date(outfile, infile) tests of the [SKIPPED] branch of a stage
UpToDateTests(d, s) ==
    CASE s = "align" ->
           IF d = "trunk"
           THEN {<<"aligned_bam", "fastq_1">>, <<"aligned_bam", "fastq_2">>,
                 <<"unaligned_fastq_1", "fastq_1">>,
                 <<"unaligned_fastq_2", "fastq_2">>}
           ELSE {<<"aligned_bam", "fastq_1">>, <<"aligned_bam", "fastq_2">>}
      [] s = "sort" -> {<<"sorted_bam", "aligned_bam">>}
      [] s = "index" -> {<<"sorted_bai", "sorted_bam">>}
      [] s = "isize" -> {<<"isize_dist_file", "aligned_bam">>}
      [] s = "realign" ->
           {<<"realigned_bam", "fastq_1">>, <<"realigned_bam", "fastq_2">>}
      [] s = "discordant" ->
           {<<"gene_paired_bam", "realigned_bam">>,
            <<"genome_paired_bam", "realigned_bam">>,
            <<"realigned_unmapped_bam", "realigned_bam">>,
            <<"realigned_complex_bam", "realigned_bam">>}
      [] s = "nominate" -> {<<"encompassing_chimera", "gene_paired_bam">>}
      [] s = "breakpoints" ->
           {<<"breakpoint_chimera", "encompassing_chimera">>,
            <<"breakpoint_map", "encompassing_chimera">>,
            <<"breakpoint_fasta", "encompassing_chimera">>}
      [] s = "bowtie_build" -> {<<"breakpoint_index", "breakpoint_fasta">>}
      [] s = "extract_encomp" ->
           {<<"unaligned_spanning_fastq", "realigned_unmapped_bam">>,
            <<"encomp_spanning_fastq", "breakpoint_chimera">>}
      [] s = "extract" ->
           {<<"spanning_fastq", "realigned_unmapped_bam">>,
            <<"spanning_fastq", "breakpoint_chimera">>}
      [] s = "align_encomp" ->
           {<<"encomp_spanning_bam", "breakpoint_index">>,
            <<"encomp_spanning_bam", "encomp_spanning_fastq">>}
      [] s = "align_unmapped" ->
           {<<"unaligned_spanning_bam", "breakpoint_index">>,
            <<"unaligned_spanning_bam", "unaligned_spanning_fastq">>}
      [] s = "align_spanning" ->
           {<<"spanning_bam", "breakpoint_index">>,
            <<"spanning_bam", "spanning_fastq">>}
      [] s = "merge" ->
           IF d = "trunk"
           THEN {<<"spanning_chimera", "breakpoint_chimera">>,
                 <<"spanning_chimera", "unaligned_spanning_bam">>,
                 <<"spanning_chimera", "encomp_spanning_bam">>,
                 <<"spanning_chimera", "realigned_unmapped_bam">>}
           ELSE {<<"spanning_chimera", "breakpoint_chimera">>,
                 <<"spanning_chimera", "spanning_bam">>}
      [] s = "filter" -> {<<"filtered_chimera", "spanning_chimera">>}
      [] s = "write_output" -> {<<"chimera_output", "filtered_chimera">>}

\* the stage is reported [SKIPPED]; the second call of the trunk's
\* extraction of spanning reads has no test of its own
Skipped(d, s, fs) ==
    /\ s # "extract_unmapped"
    /\ \A t \in UpToDateTests(d, s) : up_to_date(fs, t[1], t[2])

\* the files the function called by a stage writes
StageOutputs(d, s) ==
    CASE s = "align" -> {"aligned_bam", "unaligned_fastq_1", "unaligned_fastq_2"}
      [] s = "sort" -> {"sorted_bam"}
      [] s = "index" -> {"sorted_bai"}
      [] s = "isize" -> {"isize_dist_file"}
      [] s = "realign" -> {"realigned_bam"}
      [] s = "discordant" -> {"gene_paired_bam", "genome_paired_bam",
                              "realigned_unmapped_bam", "realigned_complex_bam"}
      [] s = "nominate" -> {"encompassing_chimera"}
      [] s = "breakpoints" -> {"breakpoint_chimera", "breakpoint_map",
                               "breakpoint_fasta"}
      [] s = "bowtie_build" -> {"breakpoint_index"}
      [] s = "extract_encomp" -> {"encomp_spanning_fastq"}
      [] s = "extract_unmapped" -> {"unaligned_spanning_fastq"}
      [] s = "extract" -> {"spanning_fastq"}
      [] s = "align_encomp" -> {"encomp_spanning_bam"}
      [] s = "align_unmapped" -> {"unaligned_spanning_bam"}
      [] s = "align_spanning" -> {"spanning_bam"}
      [] s = "merge" -> {"spanning_chimera"}
      [] s = "filter" -> {"filtered_chimera"}
      [] s = "write_output" -> {"chimera_output"}

\* the files the function called by a stage reads
StageInputs(d, s) ==
    CASE s = "align" -> {"fastq_1", "fastq_2"}
      [] s = "sort" -> {"aligned_bam"}
      [] s = "index" -> {"sorted_bam"}
      [] s = "isize" -> {"aligned_bam"}
      [] s = "realign" -> {"unaligned_fastq_1", "unaligned_fastq_2"}
      [] s = "discordant" -> {"realigned_bam"}
      [] s = "nominate" -> {"gene_paired_bam"}
      [] s = "breakpoints" -> {"encompassing_chimera"}
      [] s = "bowtie_build" -> {"breakpoint_fasta"}
      [] s = "extract_encomp" -> {"breakpoint_chimera"}
      [] s = "extract_unmapped" -> {"realigned_unmapped_bam"}
      [] s = "extract" -> {"breakpoint_chimera", "realigned_unmapped_bam"}
      [] s = "align_encomp" -> {"encomp_spanning_fastq", "breakpoint_index"}
      [] s = "align_unmapped" -> {"unaligned_spanning_fastq",
                                  "breakpoint_index"}
      [] s = "align_spanning" -> {"spanning_fastq", "breakpoint_index"}
      [] s = "merge" ->
           IF d = "trunk"
           THEN {"breakpoint_chimera", "encomp_spanning_bam",
                 "realigned_unmapped_bam", "unaligned_spanning_bam",
                 "breakpoint_map"}
           ELSE {}
      [] s = "filter" -> {"spanning_chimera"}
      [] s = "write_output" -> {"filtered_chimera"}

\* the stage takes its limit from the insert size distribution object
ReadsInsertSize(d, s) == d = "trunk" /\ s = "filter"

\* the stages that call a pipeline function or an external program whose
\* return code tells success from failure
ReturnsCode(d, s) ==
    s \in {"align", "realign", "discordant", "nominate", "breakpoints",
           "bowtie_build", "extract_encomp", "extract_unmapped", "extract",
           "align_encomp", "align_unmapped", "align_spanning", "merge",
           "filter", "write_output"}
    /\ ~(d = "legacy" /\ s = "merge")

\* what the driver does with a return code that is not success:
\* "return" JOB_ERROR, "exit" with the code, or "ignore" it
OnFailure(d, s) ==
    CASE s = "align" -> IF d = "trunk" THEN "return" ELSE "exit"
      [] s \in {"bowtie_build", "extract_encomp", "extract_unmapped",
                "extract", "align_encomp", "align_unmapped",
                "align_spanning"} -> "return"
      [] OTHER -> "ignore"

\* the files the failure branch of a stage removes (if they exist)
RemovedOnFailure(d, s) ==
    CASE s = "bowtie_build" -> {"breakpoint_index"}
      [] s = "extract_encomp" -> {"encomp_spanning_fastq"}
      [] s = "extract_unmapped" -> {"unaligned_spanning_fastq"}
      [] s = "extract" -> {"spanning_fastq"}
      [] OTHER -> {}

\* ------------------------------------------------------------------------
\* run_chimerascan: how a run ends
\* ------------------------------------------------------------------------
Running == [kind |-> "running", value |-> 0]
Return(v) == [kind |-> "return", value |-> v]
\* a bare return statement
ReturnNone == [kind |-> "return_none", value |-> 0]
\* sys.exit(v)
Exit(v) == [kind |-> "exit", value |-> v]
\* an exception leaves run_chimerascan
Raised == [kind |-> "raise", value |-> 0]

\* return codes that are not success: JOB_ERROR, or the exit status of the
\* external program
FailureCodes == {JOB_ERROR, JOB_ERROR + 1}

\* what a failed stage function leaves of its outputs: nothing new, or
\* partially written files
FailureLeaves == {"nothing", "partial"}

Log(s, ev) == [stage |-> s, ev |-> ev]

\* ------------------------------------------------------------------------
\* run_chimerascan: the steps
\* ------------------------------------------------------------------------
\* a run begins (main, or a resumption in the same output directory)
StartRun ==
    /\ pc \in {"idle", "done"}
    /\ runs < MaxRuns
    /\ runs' = runs + 1
    /\ pc' = "config"
    /\ result' = Running
    /\ trace' = <<>>
    /\ isize_dist' = [n |-> 0, from |-> "none"]
    /\ previous' = [result |-> result, trace |-> trace]
    /\ UNCHANGED <<driver, keep_tmp, sample, files, clock, failures>>
    /\ UNCHANGED <<fvars, evars>>

CheckConfig_AfterMakeDirs ==
    /\ pc = "config"
    /\ \E config_passed \in BOOLEAN :
          IF config_passed
          THEN /\ pc' = "mkdirs"
               /\ UNCHANGED <<result, files, clock>>
          ELSE /\ pc' = "done"
               /\ files' = [f \in Paths |->
                              IF f \in Dirs /\ ~files[f].exists
                              THEN [exists |-> TRUE, size |-> 1,
                                    mtime |-> clock, data |-> 0]
                              ELSE files[f]]
               /\ clock' = clock + 1
               /\ result' = IF driver = "trunk" THEN Return(JOB_ERROR)
                            ELSE Exit(JOB_ERROR)
    /\ UNCHANGED <<driver, keep_tmp, sample, previous, isize_dist, trace,
                   failures, runs>>
    /\ UNCHANGED <<fvars, evars>>

\* runconfig.check_config(); an invalid configuration ends the run
CheckConfig ==
    /\ pc = "config"
    /\ \E config_passed \in BOOLEAN :
          IF config_passed
          THEN /\ pc' = "mkdirs"
               /\ UNCHANGED result
          ELSE /\ pc' = "done"
               /\ result' = IF driver = "trunk" THEN Return(JOB_ERROR)
                            ELSE Exit(JOB_ERROR)
    /\ UNCHANGED <<driver, keep_tmp, sample, previous, files, clock,
                   isize_dist, trace, failures, runs>>
    /\ UNCHANGED <<fvars, evars>>

\* create the output, log and tmp directories that do not exist, write
\* the run configuration
MakeDirs ==
    /\ pc = "mkdirs"
    /\ files' = [f \in Paths |->
                   IF f \in Dirs /\ ~files[f].exists THEN Written(clock, 0)
                   ELSE IF f = "runconfig_xml" THEN Written(clock, 0)
                   ELSE files[f]]
    /\ clock' = clock + 1
    /\ pc' = "align"
    /\ UNCHANGED <<driver, keep_tmp, sample, previous, isize_dist, result,
                   trace, failures, runs>>
    /\ UNCHANGED <<fvars, evars>>

CallStages(d) == {StageSeq(d)[i] : i \in 1..Len(StageSeq(d))}
                    \ {"isize", "cleanup", "return"}

\* the [SKIPPED] branch of a stage
SkipStage ==
    /\ pc \in CallStages(driver)
    /\ Skipped(driver, pc, files)
    /\ trace' = Append(trace, Log(pc, "skip"))
    /\ pc' = AfterSkip(driver, pc)
    /\ UNCHANGED <<driver, keep_tmp, sample, previous, files, clock,
                   isize_dist, result, failures, runs>>
    /\ UNCHANGED <<fvars, evars>>

\* the stage's function is undefined in the legacy driver: the call of
\* merge_spanning_alignments raises NameError
Undefined(d, s) == d = "legacy" /\ s = "merge"

\* the stage runs and its function succeeds: its outputs are written
RunStage ==
    /\ pc \in CallStages(driver)
    /\ ~Skipped(driver, pc, files)
    /\ ~Undefined(driver, pc)
    /\ files' = [f \in Paths |->
                   IF f \in StageOutputs(driver, pc)
                   THEN WrittenBy(f, sample, clock)
                   ELSE files[f]]
    /\ clock' = clock + 1
    /\ trace' = Append(trace, Log(pc, "ok"))
    /\ pc' = NextStage(driver, pc)
    /\ UNCHANGED <<driver, keep_tmp, sample, previous, isize_dist, result,
                   failures, runs>>
    /\ UNCHANGED <<fvars, evars>>

\* the stage runs and its function reports a failure
FailStage ==
    /\ pc \in CallStages(driver)
    /\ ~Skipped(driver, pc, files)
    /\ ~Undefined(driver, pc)
    /\ ReturnsCode(driver, pc)
    /\ failures < MaxFailures
    /\ failures' = failures + 1
    /\ trace' = Append(trace, Log(pc, "fail"))
    /\ clock' = clock + 1
    /\ \E retcode \in FailureCodes, left \in FailureLeaves :
          LET after == [f \in Paths |->
                          IF f \in StageOutputs(driver, pc) /\ left = "partial"
                          THEN Written(clock, 0) ELSE files[f]]
              act == OnFailure(driver, pc)
          IN /\ files' = [f \in Paths |->
                            IF act # "ignore" /\ f \in RemovedOnFailure(driver, pc)
                            THEN Absent ELSE after[f]]
             /\ result' = CASE act = "return" -> Return(JOB_ERROR)
                            [] act = "exit" -> Exit(retcode)
                            [] OTHER -> result
             /\ pc' = IF act = "ignore" THEN NextStage(driver, pc) ELSE "done"
    /\ UNCHANGED <<driver, keep_tmp, sample, previous, isize_dist, runs>>
    /\ UNCHANGED <<fvars, evars>>

\* the legacy driver reaches the call of merge_spanning_alignments
CallUndefined ==
    /\ pc \in CallStages(driver)
    /\ ~Skipped(driver, pc, files)
    /\ Undefined(driver, pc)
    /\ trace' = Append(trace, Log(pc, "raise"))
    /\ result' = Raised
    /\ pc' = "done"
    /\ UNCHANGED <<driver, keep_tmp, sample, previous, files, clock,
                   isize_dist, failures, runs>>
    /\ UNCHANGED <<fvars, evars>>

\* the distribution kept after profiling n fragments: the trunk replaces
\* a sample below the minimum by a random sample
Profiled(d, n) ==
    IF d = "trunk" /\ n < ISIZE_MIN_SAMPLES
    THEN [n |-> ISIZE_MAX_SAMPLES, from |-> "random"]
    ELSE [n |-> n, from |-> "bam"]

\* insert size distribution: read from its file when that is up to date,
\* else sampled from the aligned reads and written to the file
ProfileInsertSize ==
    /\ pc = "isize"
    /\ IF Skipped(driver, "isize", files)
       THEN /\ isize_dist' = [n |-> files["isize_dist_file"].data,
                              from |-> "file"]
            /\ trace' = Append(trace, Log("isize", "skip"))
            /\ UNCHANGED <<files, clock>>
       ELSE \E n \in 0..ISIZE_MAX_SAMPLES :
               /\ isize_dist' = Profiled(driver, n)
               /\ trace' = Append(trace,
                     Log("isize", IF isize_dist'.from = "random"
                                  THEN "warn" ELSE "ok"))
               /\ files' = [files EXCEPT !["isize_dist_file"] =
                               Written(clock, isize_dist'.n)]
               /\ clock' = clock + 1
    /\ pc' = NextStage(driver, "isize")
    /\ UNCHANGED <<driver, keep_tmp, sample, previous, result, failures,
                   runs>>
    /\ UNCHANGED <<fvars, evars>>

\* the end of the function: the trunk removes the tmp directory unless
\* keep_tmp and returns JOB_SUCCESS; the legacy driver has a bare return
\* after the merge (reached only when the merge is skipped)
Finish ==
    /\ pc \in {"cleanup", "return"}
    /\ IF pc = "cleanup"
       THEN /\ files' = [f \in Paths |->
                           IF ~keep_tmp /\ f \in TmpDirFiles \cup {"tmp_dir"}
                           THEN Absent ELSE files[f]]
            /\ result' = Return(JOB_SUCCESS)
       ELSE /\ result' = ReturnNone
            /\ UNCHANGED files
    /\ pc' = "done"
    /\ UNCHANGED <<driver, keep_tmp, sample, previous, clock, isize_dist,
                   trace, failures, runs>>
    /\ UNCHANGED <<fvars, evars>>

\* the filter is not running
FilterIdle ==
    /\ input_file = <<>>
    /\ weighted_unique_frags = DEFAULT_COV_WITHOUT_SPANNING
    /\ max_isize = 0
    /\ false_pos_file = NoFile
    /\ tmp_file = NoFile
    /\ output_file = NoFile
    /\ kept_chimeras = {}
    /\ recollapsed = {}
    /\ fpc = "idle"

\* a new output directory: only the two fastq files exist
FreshFiles == [f \in Paths |-> IF f \in InputFastq THEN Written(0, 0) ELSE Absent]

\* no run has started
PipelineIdle ==
    /\ driver = "trunk"
    /\ keep_tmp = FALSE
    /\ sample = "chimeric"
    /\ pc = "idle"
    /\ files = FreshFiles
    /\ clock = 1
    /\ isize_dist = [n |-> 0, from |-> "none"]
    /\ result = Running
    /\ trace = <<>>
    /\ failures = 0
    /\ runs = 0
    /\ previous = [result |-> Running, trace |-> <<>>]

Init ==
    /\ driver \in {"trunk", "legacy"}
    /\ keep_tmp \in BOOLEAN
    /\ sample \in Samples
    /\ pc = "idle"
    /\ files = FreshFiles
    /\ clock = 1
    /\ isize_dist = [n |-> 0, from |-> "none"]
    /\ result = Running
    /\ trace = <<>>
    /\ failures = 0
    /\ runs = 0
    /\ previous = [result |-> Running, trace |-> <<>>]
    /\ FilterIdle
    /\ MergeIdle
    /\ ConfigIdle
    /\ BreakpointIdle

Next ==
    \/ StartRun
    \/ CheckConfig
    \/ MakeDirs
    \/ SkipStage
    \/ RunStage
    \/ FailStage
    \/ CallUndefined
    \/ ProfileInsertSize
    \/ Finish

Spec == Init /\ [][Next]_vars

\* ------------------------------------------------------------------------
\* Inputs of the filter
\* ------------------------------------------------------------------------
Partners5p == {<<"A1", 10>>, <<"A2", 12>>, <<"A1", 12>>}
Ranks == {<<0, 2, 3>>, <<1, 1, 2>>, <<1, 1, 3>>, <<1, 2, 2>>}
MaxIsizes == {0, 1200, 1600}
FalsePosFiles == {NoFile, << <<"A1", 10, "B1", 5>> >>}

\* what a record carries for the three tests: <<inner_dist5p, inner_dist3p,
\* weighted unique frags>>; a record fails at most one of the two tests
Evidence == {<<1200, 1200, 3>>, <<1200, 1200, 2>>,
             <<1500, 1200, 3>>, <<1200, 1500, 3>>}

\* the lines a chimera file may hold (names are assigned per file): records
\* of the two isoforms A1/A2 of one fusion event with every evidence, and
\* records of every partner with every rank
EvidenceBodies ==
    {<<p[1], p[2], e[1], "B1", 5, e[2], e[3], r[1], r[2], r[3]>> :
        p \in {<<"A1", 10>>, <<"A2", 12>>}, e \in Evidence,
        r \in {<<0, 2, 3>>, <<1, 1, 2>>}}

RankBodies ==
    {<<p[1], p[2], 1200, "B1", 5, 1200, 3, r[1], r[2], r[3]>> :
        p \in Partners5p, r \in Ranks}

LineBodies == EvidenceBodies \cup RankBodies

\* chimera files of n records: the record at position i is named i
FilesOfLen(n) ==
    {[i \in 1..n |-> <<i>> \o b[i]] : b \in [1..n -> LineBodies]}

InputFiles == UNION {FilesOfLen(n) : n \in 0..MaxRecords}

FilterInit ==
    /\ input_file \in InputFiles
    /\ weighted_unique_frags \in
          {DEFAULT_COV_WITH_SPANNING, DEFAULT_COV_WITHOUT_SPANNING}
    /\ max_isize \in MaxIsizes
    /\ false_pos_file \in FalsePosFiles
    /\ tmp_file = NoFile
    /\ output_file = NoFile
    /\ kept_chimeras = {}
    /\ recollapsed = {}
    /\ fpc = "start"
    /\ PipelineIdle
    /\ MergeIdle
    /\ ConfigIdle
    /\ BreakpointIdle

FilterNext == FirstPass \/ SecondPass \/ Recollapse

FilterSpec == FilterInit /\ [][FilterNext]_vars

\* ------------------------------------------------------------------------
\* Inputs of the filter in which records may share a name
\* ------------------------------------------------------------------------
DupNames == {1, 2}

\* the lines of one rank: every evidence on the two isoforms, and a passing
\* record of another fusion event
DupBodies == {b \in LineBodies : <<b[8], b[9], b[10]>> = <<1, 1, 2>>}

\* chimera files of n records with names chosen freely
DupFilesOfLen(n) ==
    {[i \in 1..n |-> <<nm[i]>> \o b[i]] :
        nm \in [1..n -> DupNames], b \in [1..n -> DupBodies]}

DupInputFiles == UNION {DupFilesOfLen(n) : n \in 0..MaxRecords}

DupInit ==
    /\ input_file \in DupInputFiles
    /\ weighted_unique_frags \in
          {DEFAULT_COV_WITH_SPANNING, DEFAULT_COV_WITHOUT_SPANNING}
    /\ max_isize \in MaxIsizes
    /\ false_pos_file \in FalsePosFiles
    /\ tmp_file = NoFile
    /\ output_file = NoFile
    /\ kept_chimeras = {}
    /\ recollapsed = {}
    /\ fpc = "start"
    /\ PipelineIdle
    /\ MergeIdle
    /\ ConfigIdle
    /\ BreakpointIdle

DupSpec == DupInit /\ [][FilterNext]_vars

\* ------------------------------------------------------------------------
\* merge_spanning_alignments called with the anchor options of the run
\* configuration
\* ------------------------------------------------------------------------
MergeInit ==
    /\ anchor_min \in {DEFAULT_ANCHOR_MIN, DEFAULT_ANCHOR_MIN + 2}
    /\ anchor_length \in {DEFAULT_ANCHOR_LENGTH, DEFAULT_ANCHOR_LENGTH + 4}
    /\ anchor_mismatches \in
          {DEFAULT_ANCHOR_MISMATCHES, DEFAULT_ANCHOR_MISMATCHES + 1}
    /\ spanning_read = NoRead
    /\ spanning_frags = 0
    /\ encomp_frags \in {1, 2}
    /\ reads_merged = 0
    /\ FilterIdle
    /\ PipelineIdle
    /\ BreakpointIdle
    /\ ConfigIdle

MergeNext == MergeSpanningRead

MergeSpec == MergeInit /\ [][MergeNext]_vars

\* ------------------------------------------------------------------------
\* determine_chimera_breakpoints on one chimera candidate
\* ------------------------------------------------------------------------
BreakpointInit ==
    /\ seq5p \in [1..HomologyWindow -> Bases]
    /\ seq3p \in [1..HomologyWindow -> Bases]
    /\ homology_mismatches \in 0..MaxHomologyMismatches
    /\ homology = [len |-> 0, mismatches |-> 0, low_confidence |-> FALSE,
                   state |-> "scanning"]
    /\ FilterIdle
    /\ PipelineIdle
    /\ MergeIdle
    /\ ConfigIdle

BreakpointNext == ExtendHomology

BreakpointSpec == BreakpointInit /\ [][BreakpointNext]_vars

\* ------------------------------------------------------------------------
\* Inputs of RunConfig.from_args
\* ------------------------------------------------------------------------
\* <index> <mate1.fq> <mate2.fq> <output_dir>, and what follows them
PositionalArg(i) ==
    CASE i = 1 -> "index_dir"
      [] i = 2 -> "mate1.fq"
      [] i = 3 -> "mate2.fq"
      [] i = 4 -> "output_dir"
      [] OTHER -> "extra"

CommandLines == {[i \in 1..n |-> PositionalArg(i)] : n \in 0..MaxArgs}

\* the values an option of the command line can have: its default when it
\* is not given, or what was typed
OptionValues(a) ==
    CASE a = "bowtie_args" -> {PyStr(DEFAULT_BOWTIE_ARGS), PyStr("-k 1")}
      [] a = "anchor_min" ->
           {PyInt(DEFAULT_ANCHOR_MIN), PyInt(DEFAULT_ANCHOR_MIN + 1)}
      [] a = "filter_cov_wo_spanning" ->
           {PyInt(DEFAULT_COV_WITHOUT_SPANNING),
            PyFloat(DEFAULT_COV_WITHOUT_SPANNING, 0),
            PyFloat(DEFAULT_COV_WITHOUT_SPANNING - 1, 1)}

OptionSets ==
    {o \in [AttrNames -> UNION {OptionValues(a) : a \in AttrNames}] :
        \A a \in AttrNames : o[a] \in OptionValues(a)}

\* the element of an optional attribute in a config file: absent, or a
\* value that is neither the default nor one of the command line
AttrElems(a) ==
    CASE a = "bowtie_args" -> {NoElem, Elem("-v 2")}
      [] a = "anchor_min" ->
           {NoElem, Elem(ToString(DEFAULT_ANCHOR_MIN + 2))}
      [] a = "filter_cov_wo_spanning" ->
           {NoElem,
            Elem(str(PyFloat(DEFAULT_COV_WITHOUT_SPANNING + 2, 0)))}

\* the fastq_files element: empty, or the two mates in either order
FastqElems ==
    {<<>>,
     <<[mate |-> 0, text |-> "cfg1.fq"], [mate |-> 1, text |-> "cfg2.fq"]>>,
     <<[mate |-> 1, text |-> "cfg2.fq"], [mate |-> 0, text |-> "cfg1.fq"]>>}

ConfigRoots ==
    {[output_dir |-> o, fastq_files |-> f, index |-> i, attr |-> t] :
        o \in {NoElem, Elem("cfg_output")},
        f \in FastqElems,
        i \in {NoElem, Elem("cfg_index")},
        t \in {e \in [AttrNames -> UNION {AttrElems(a) : a \in AttrNames}] :
                  \A a \in AttrNames : e[a] \in AttrElems(a)}}

ConfigInit ==
    /\ argv \in CommandLines
    /\ options \in OptionSets
    /\ config_file \in {NoXml} \cup {Xml(root) : root \in ConfigRoots}
    /\ runconfig = NewRunConfig
    /\ cpc = "from_args"
    /\ outcome = "none"
    /\ xmlstring = NoXml
    /\ reloaded = NewRunConfig
    /\ FilterIdle
    /\ PipelineIdle
    /\ MergeIdle
    /\ BreakpointIdle

ConfigNext ==
    \/ LoadConfigFile
    \/ PositionalArgs
    \/ OptionalArgs
    \/ WriteRunConfig
    \/ ReloadRunConfig

ConfigSpec == ConfigInit /\ [][ConfigNext]_vars

\* ------------------------------------------------------------------------
\* Properties of filter_chimeras
\* ------------------------------------------------------------------------
InputRecords == Parse(input_file)
InputIdx == 1..Len(input_file)
FileNames(file) == IF file = NoFile THEN {} ELSE {file[i][1] : i \in 1..Len(file)}
FilterReturned == fpc \in {"returned", "recollapsed"}
Blacklisted(c) == false_pos_key(c) \in FalsePosPairs(false_pos_file)
SameEvent(c, d) == ClusterKey(c) = ClusterKey(d)
InOutput(c) == /\ output_file # NoFile
               /\ \E k \in 1..Len(output_file) : output_file[k] = to_list(c)
\* the record reached the collapse (it was written to the temporary file)
Passed(c) == Good(c, weighted_unique_frags, max_isize,
                  FalsePosPairs(false_pos_file))

\* the coverage threshold the run configuration gives a record
ConfiguredThreshold(c) ==
    IF c.spanning >= 1 THEN DEFAULT_COV_WITH_SPANNING
    ELSE DEFAULT_COV_WITHOUT_SPANNING

\* C1: a record with at least one spanning read passes the coverage test
\* iff its weighted coverage reaches the with-spanning threshold, a record
\* without spanning reads iff it reaches the without-spanning threshold:
\* after the first pass the temporary file holds exactly the records that
\* reach their threshold, respect the inner-distance limit and are not
\* false positives.
C1_SpanningDependentThreshold ==
    fpc = "filtered" =>
        \A i \in InputIdx :
            LET c == InputRecords[i]
            IN c.name \in FileNames(tmp_file) <=>
                 /\ c.weighted_unique_frags >= ConfiguredThreshold(c)
                 /\ filter_inner_dist(c, max_isize)
                 /\ ~Blacklisted(c)

C3_InnerDistFilter ==
    (fpc = "filtered" /\ max_isize > 0) =>
        \A i \in InputIdx :
            LET c == InputRecords[i]
            IN (filter_weighted_frags(c, weighted_unique_frags) /\ ~Blacklisted(c))
               => (c.name \notin FileNames(tmp_file) <=>
                     \/ c.partner5p.inner_dist > max_isize
                     \/ c.partner3p.inner_dist > max_isize)

\* limit 1200: one record with inner distance 1500 rejected and one with
\* inner distance 1200 (the limit itself) accepted by the first pass
C3_Witness ==
    /\ fpc = "filtered"
    /\ max_isize = 1200
    /\ \E i, j \in InputIdx :
          LET c == InputRecords[i]
              d == InputRecords[j]
          IN /\ c.partner3p.inner_dist = 1500
             /\ filter_weighted_frags(c, weighted_unique_frags)
             /\ ~Blacklisted(c)
             /\ c.name \notin FileNames(tmp_file)
             /\ d.partner5p.inner_dist = 1200
             /\ d.partner3p.inner_dist = 1200
             /\ d.name \in FileNames(tmp_file)

C6_CollapseIdempotent ==
    fpc = "recollapsed" => recollapsed = FileNames(output_file)

\* the first collapse discarded a record and the second collapse ran on a
\* non-empty output
C6_Witness ==
    /\ fpc = "recollapsed"
    /\ Len(output_file) > 0
    /\ \E i \in InputIdx :
          /\ Passed(InputRecords[i])
          /\ InputRecords[i].name \notin kept_chimeras

\* the record is the only record of its fusion event in the input
OnlyOfEvent(i) ==
    \A j \in InputIdx : SameEvent(InputRecords[i], InputRecords[j]) => j = i

\* the positions of the output that hold the record of input position i:
\* the record of that name and that breakpoint
OutputOf(i) ==
    {k \in 1..Len(output_file) :
        LET d == parse_line(output_file[k])
        IN /\ d.name = InputRecords[i].name
           /\ false_pos_key(d) = false_pos_key(InputRecords[i])}

\* C11: a record that passes the coverage, inner-distance and blacklist
\* tests and is the only record of its fusion event appears exactly once in
\* the output, with its fragment count and its weighted coverage unchanged.
C11_SolePassingRecordWritten ==
    FilterReturned =>
        \A i \in InputIdx :
            (Passed(InputRecords[i]) /\ OnlyOfEvent(i)) =>
               /\ Cardinality(OutputOf(i)) = 1
               /\ \A k \in OutputOf(i) :
                     LET d == parse_line(output_file[k])
                         c == InputRecords[i]
                     IN /\ d.frags = c.frags
                        /\ d.weighted_cov = c.weighted_cov
                        /\ d.weighted_unique_frags = c.weighted_unique_frags

\* a record without spanning reads whose coverage equals the threshold of
\* 3, alone in its event, written next to a record of another event
C11_Witness ==
    /\ FilterReturned
    /\ weighted_unique_frags = DEFAULT_COV_WITHOUT_SPANNING
    /\ Len(input_file) = 2
    /\ \E i \in InputIdx :
          LET c == InputRecords[i]
          IN /\ Passed(c) /\ OnlyOfEvent(i)
             /\ c.spanning = 0
             /\ c.weighted_unique_frags = DEFAULT_COV_WITHOUT_SPANNING
             /\ c.weighted_cov > 0
             /\ InOutput(c)

\* the file does not exist
Missing(file) == file = NoFile

\* C14: the filter never mutates its input: no step of filter_chimeras
\* changes the input chimera file or the false-positive file, and when it
\* returns the temporary file is removed and the output file is the only
\* file it created that exists.
C14_FilterLeavesInput ==
    [][/\ input_file' = input_file
       /\ false_pos_file' = false_pos_file
       /\ fpc' = "returned" => (Missing(tmp_file') /\ ~Missing(output_file'))]_vars

\* the filter returned after reading a false-positive file and an input
\* of two records, one of which it wrote
C14_Witness ==
    /\ fpc = "returned"
    /\ false_pos_file # NoFile
    /\ Len(input_file) = 2
    /\ Len(output_file) = 1
    /\ tmp_file = NoFile

\* C18: isoform collapse comes last and ranks only the records that passed
\* the coverage, inner-distance and blacklist tests: a passing record is
\* discarded only when a passing record of the same fusion event ranks
\* strictly higher, never because of a rejected record.
C18_CollapseRanksPassingOnly ==
    FilterReturned =>
        \A i \in InputIdx :
            LET c == InputRecords[i]
            IN (Passed(c) /\ ~InOutput(c)) =>
                  \E j \in InputIdx :
                     /\ Passed(InputRecords[j])
                     /\ SameEvent(c, InputRecords[j])
                     /\ TupleLess(StatsKey(c), StatsKey(InputRecords[j]))

\* a passing record is written although a rejected record of its fusion
\* event ranks strictly higher
C18_Witness ==
    /\ FilterReturned
    /\ \E i, j \in InputIdx :
          LET c == InputRecords[i]
              d == InputRecords[j]
          IN /\ Passed(c) /\ ~Passed(d)
             /\ SameEvent(c, d)
             /\ TupleLess(StatsKey(c), StatsKey(d))
             /\ InOutput(c) /\ ~InOutput(d)

\* C19: every record written to the output file satisfies the coverage
\* threshold, the inner-distance limit and the blacklist test, also when
\* several records of the input carry the same name.
C19_WrittenRecordsPass ==
    FilterReturned =>
        \A k \in 1..Len(output_file) : Passed(parse_line(output_file[k]))


\* the lines of sub occur in full, in the same order
RECURSIVE IsSubsequence(_, _)
IsSubsequence(sub, full) ==
    IF sub = <<>> THEN TRUE
    ELSE IF full = <<>> THEN FALSE
    ELSE IF Head(sub) = Head(full)
         THEN IsSubsequence(Tail(sub), Tail(full))
    ELSE IsSubsequence(sub, Tail(full))

StageFailed == /\ pc \in CallStages(driver)
               /\ trace' = Append(trace, Log(pc, "fail"))

\* the failure of the stage the run is at ends the run
FatalFailure == StageFailed /\ pc' = "done"

\* the files that are not outputs of stage s
NotOutputsOf(s) == Paths \ StageOutputs(driver, s)

\* C7: whenever a stage S fails fatally the run returns JOB_ERROR, and
\* every file that is not an output of S is left as it was: the failure
\* path changes or removes nothing but S's own output.
C7_FatalFailureReturnsJobError ==
    [][FatalFailure =>
          /\ result' = Return(JOB_ERROR)
          /\ \A f \in NotOutputsOf(pc) : files'[f] = files[f]]_vars

\* trace entries of the stages that were executed, not skipped
Executed(i) == trace[i].ev # "skip"

\* C8: no failure propagates silently past a stage boundary: when a stage
\* reports a failure no later stage is executed in that run and the run
\* does not return JOB_SUCCESS.
C8_NoSilentFailure ==
    \A i \in 1..Len(trace) :
       trace[i].ev = "fail" =>
          /\ \A j \in (i+1)..Len(trace) : ~Executed(j)
          /\ result # Return(JOB_SUCCESS)

\* stage s has been executed or skipped in the run
Reached(s) == \E i \in 1..Len(trace) : trace[i].stage = s

\* C9: once the insert size stage is passed, the run holds a distribution
\* of at least ISIZE_MIN_SAMPLES samples: a smaller empirical sample has
\* been replaced, with a warning, by a synthetic one.
C9_UsableInsertSizeDistribution ==
    Reached("isize") => isize_dist.n >= ISIZE_MIN_SAMPLES

\* the stage of the specification a step of the driver belongs to
Phase(s) == IF s \in {"extract_encomp", "extract_unmapped"} THEN "extract"
            ELSE s

\* the entries of the trace are in program order
TraceForward ==
    \A i, j \in 1..Len(trace) :
       i < j => StageIndex(driver, trace[i].stage)
                   < StageIndex(driver, trace[j].stage)

\* every stage upstream of an executed stage was executed or skipped
\* before it in the same run
UpstreamReached ==
    \A i \in 1..Len(trace) :
       Executed(i) =>
          \A k \in 1..(StageIndex(driver, trace[i].stage) - 1) :
             \E j \in 1..i :
                Phase(trace[j].stage) = Phase(StageSeq(driver)[k])

\* the run ended and did not fail
RunSucceeded == /\ pc = "done"
                /\ result \in {Return(JOB_SUCCESS), ReturnNone}

\* C10: data flows strictly forward: the stages of a run, among them
\* fragment classification, chimera nomination, breakpoint determination,
\* spanning merge and filtering, are reached in program order, a stage is
\* executed only after every stage upstream of it has been executed or
\* skipped in the same run, and a run that does not fail has reached the
\* filter stage.
C10_DataFlowsForward ==
    /\ TraceForward
    /\ UpstreamReached
    /\ RunSucceeded => Reached("filter")

\* a resumed run skips fragment classification as up to date, executes the
\* filter and succeeds
C10_Witness ==
    /\ RunSucceeded
    /\ runs = 2
    /\ \E i, j \in 1..Len(trace) :
          /\ trace[i] = Log("discordant", "skip")
          /\ trace[j] = Log("filter", "ok")

\* C12: no retries: within one run every stage is entered at most once, so
\* a stage that ran, failed or was skipped is never invoked again in that
\* run.
C12_NoRetries ==
    \A i, j \in 1..Len(trace) :
       trace[i].stage = trace[j].stage => i = j

\* a run in which a stage reported a failure, the driver went on with the
\* stages after it and the run ended
C12_Witness ==
    /\ pc = "done"
    /\ \E i \in 1..Len(trace) :
          /\ trace[i].ev = "fail"
          /\ i < Len(trace)

\* the run ended by handing a status to its caller: a return value, or the
\* status of sys.exit
Signalled == result.kind \in {"return", "exit"}

\* C13: every run that ends hands exactly one of the two signals
\* JOB_SUCCESS and JOB_ERROR to its caller, never another value and never
\* the raw return code of an external program.
C13_EndsWithJobSignal ==
    pc = "done" =>
       /\ Signalled
       /\ result.value \in {JOB_SUCCESS, JOB_ERROR}

\* stage s reads what stage r makes
Consumes(s, r) ==
    \/ StageInputs(driver, s) \cap StageOutputs(driver, r) # {}
    \/ r = "isize" /\ ReadsInsertSize(driver, s)

\* the stage of trace entry i ran and made its outputs anew
Remade(i) == trace[i].ev \in {"ok", "warn"}

\* C20: staleness propagates downstream within a run: when a stage is
\* executed again, no later stage of the run that consumes one of its
\* outputs (a file, or the insert size distribution) is skipped as up to
\* date.
C20_StalenessPropagates ==
    \A i, j \in 1..Len(trace) :
       (/\ i < j
        /\ Remade(i)
        /\ Consumes(trace[j].stage, trace[i].stage))
       => trace[j].ev # "skip"

\* the run before this one returned JOB_ERROR at the failure of stage s
PreviousFailedAt(s) ==
    /\ previous.result = Return(JOB_ERROR)
    /\ Len(previous.trace) > 0
    /\ previous.trace[Len(previous.trace)] = Log(s, "fail")

\* C21: a failed stage is never accepted as up to date on resumption: when
\* the run before this one returned JOB_ERROR because stage S failed, this
\* run, started with no file changed, does not skip S.
C21_FailedStageRunsAgain ==
    \A i \in 1..Len(trace) :
       PreviousFailedAt(trace[i].stage) => trace[i].ev # "skip"

\* the run before this one returned JOB_SUCCESS and kept the tmp directory
PreviousCompleteKept ==
    /\ previous.result = Return(JOB_SUCCESS)
    /\ keep_tmp

\* C22: re-running is a no-op once complete: the run that follows a run
\* which returned JOB_SUCCESS with keep_tmp set, with no file changed,
\* skips every stage, calls no stage function and returns JOB_SUCCESS,
\* whatever the intermediate files hold (empty outputs included).  (A run
\* with an empty trace is one whose configuration was refused.)
C22_RerunIsNoOp ==
    PreviousCompleteKept =>
       /\ \A i \in 1..Len(trace) : trace[i].ev = "skip"
       /\ (pc = "done" /\ trace # <<>>) => result = Return(JOB_SUCCESS)

\* what is said of up_to_date(outfile, infile): both files exist, outfile
\* is not empty, and outfile was modified no earlier than infile
Fresh(outfile, infile) ==
    /\ files[infile].exists
    /\ files[outfile].exists
    /\ files[outfile].size # 0
    /\ files[outfile].mtime >= files[infile].mtime

\* the step skips the stage the run is at: all its up_to_date tests passed
SkipStep == trace' = Append(trace, Log(pc, "skip"))

\* C23: up_to_date(outfile, infile) is true iff both files exist, outfile
\* has non-zero size and outfile's modification time is >= infile's; in
\* every other case (infile missing, outfile missing, outfile empty,
\* outfile older) it is false; and a step that only evaluates it (a
\* skipped stage) changes no file.
C23_UpToDate ==
    [][/\ \A outfile, infile \in Paths :
             up_to_date(files, outfile, infile) <=> Fresh(outfile, infile)
       /\ SkipStep => files' = files]_vars

\* the up_to_date tests of the stages of the driver
AllTests ==
    UNION {UpToDateTests(driver, s) :
              s \in (CallStages(driver) \cup {"isize"}) \ {"extract_unmapped"}}

\* a run in which tests of the driver came out true (a skipped stage) and
\* false (an executed one), and where the file system holds, among the
\* pairs the driver tests, an empty outfile next to its infile, an outfile
\* older than its infile and a missing outfile
C23_Witness ==
    /\ \E i, j \in 1..Len(trace) : /\ trace[i].ev = "skip"
                                   /\ trace[j].ev = "ok"
    /\ \E t \in AllTests : /\ files[t[1]].exists /\ files[t[2]].exists
                           /\ files[t[1]].size = 0
                           /\ ~up_to_date(files, t[1], t[2])
    /\ \E t \in AllTests : /\ files[t[1]].exists /\ files[t[2]].exists
                           /\ files[t[1]].size # 0
                           /\ files[t[1]].mtime < files[t[2]].mtime
                           /\ ~up_to_date(files, t[1], t[2])
    /\ \E t \in AllTests : /\ ~files[t[1]].exists /\ files[t[2]].exists
                           /\ ~up_to_date(files, t[1], t[2])

\* check_config returned false: the run leaves the configuration check
\* for its end
ConfigRefused == pc = "config" /\ pc' = "done"

\* C24: an invalid run configuration aborts before any side effect: when
\* check_config returns false the run ends with the failure signal
\* JOB_ERROR, no directory and no file (the run-configuration XML among
\* them) is created or changed, and no stage is executed or skipped.
C24_InvalidConfigAborts ==
    [][ConfigRefused =>
          /\ files' = files
          /\ trace' = <<>>
          /\ result'.kind \in {"return", "exit"}
          /\ result'.value = JOB_ERROR]_vars

\* the first run was refused: nothing but the input fastq files exists
C24_Witness ==
    /\ runs = 1
    /\ pc = "done"
    /\ trace = <<>>
    /\ result.value = JOB_ERROR
    /\ \A f \in Dirs \cup {"runconfig_xml"} : ~files[f].exists

\* the tmp directory and what it holds
TmpTree == TmpDirFiles \cup {"tmp_dir"}

\* the step removes something of the tmp directory
RemovesTmp == \E f \in TmpTree : files[f].exists /\ ~files'[f].exists

\* the step ends the run with JOB_ERROR
ReturnsJobError == /\ pc # "done"
                   /\ pc' = "done"
                   /\ result'.value = JOB_ERROR

\* C28: intermediate files are deleted only after complete success: the
\* tmp directory is removed only at the end of a run in which every stage
\* was executed or skipped without failure and keep_tmp is false; on every
\* JOB_ERROR return, and whenever keep_tmp is true, the tmp directory and
\* all intermediate files in it are left in place.
C28_TmpRemovedOnlyAfterSuccess ==
    [][/\ RemovesTmp =>
             /\ pc = "cleanup"
             /\ ~keep_tmp
             /\ \A i \in 1..Len(trace) : trace[i].ev # "fail"
             /\ result' = Return(JOB_SUCCESS)
       /\ (ReturnsJobError \/ keep_tmp) => ~RemovesTmp]_vars

\* ------------------------------------------------------------------------
\* Properties of RunConfig
\* ------------------------------------------------------------------------
\* from_args returned
Configured == cpc \in {"configured", "written", "reloaded"}

\* the value of attribute a loaded from the config file, None without one
Loaded(a) == IF config_file.given THEN from_xml(config_file.root).attr[a]
             ELSE None

\* C25: option precedence in from_args: after a --config file is loaded,
\* an optional attribute ends up with the command-line option's value if
\* the attribute is still undefined or the option's value differs from
\* the built-in default, and otherwise keeps the value loaded from the
\* config file; without a config file it equals the option's value.
C25_OptionPrecedence ==
    Configured =>
       \A a \in AttrNames :
          /\ runconfig.attr[a] =
                IF \/ Loaded(a) = None
                   \/ NotEqual(options[a], Attr(a).attrdefault)
                THEN options[a]
                ELSE Loaded(a)
          /\ ~config_file.given => runconfig.attr[a] = options[a]

\* with a config file, one attribute kept the value of the file against
\* a default option and another was overridden by a typed option
C25_Witness ==
    /\ Configured
    /\ config_file.given
    /\ \E a, b \in AttrNames :
          /\ config_file.root.attr[a].present
          /\ runconfig.attr[a] = Loaded(a)
          /\ NotEqual(Loaded(a), options[a])
          /\ config_file.root.attr[b].present
          /\ runconfig.attr[b] = options[b]
          /\ NotEqual(Loaded(b), options[b])

\* the config file holds the element
InConfigFile(elem) == config_file.given /\ elem.present

\* a required value is given neither in the config file nor on the
\* command line
RequiredMissing ==
    \/ ~InConfigFile(config_file.root.index) /\ Len(argv) < 1
    \/ /\ ~(config_file.given /\ Len(config_file.root.fastq_files) = 2)
       /\ Len(argv) < 3
    \/ ~InConfigFile(config_file.root.output_dir) /\ Len(argv) < 4

ParserError ==
    outcome \in {"parser.error: fastq files not specified",
                 "parser.error: output dir not specified"}

\* C26: from_args reports a parser error, and never fails with an
\* unhandled exception, whenever a required positional value is missing:
\* for 0 to 4 positional arguments, if the index directory, the two fastq
\* files or the output directory is given neither in the config file nor
\* on the command line, parser.error is called.
C26_MissingPositionalReported ==
    cpc \notin {"from_args", "positional"} =>
       /\ RequiredMissing => ParserError
       /\ outcome # "IndexError"

\* C27: run-configuration XML round trip: loading with from_xml the
\* document produced by to_xml yields the same output_dir, the same
\* fastq_files in the same mate order, the same index_dir and the same
\* value for every optional attribute; and an optional element absent from
\* a document takes its built-in default.
C27_XmlRoundTrip ==
    /\ cpc = "reloaded" =>
          /\ reloaded.output_dir = runconfig.output_dir
          /\ reloaded.fastq_files = runconfig.fastq_files
          /\ reloaded.index_dir = runconfig.index_dir
          /\ \A a \in AttrNames :
                ~NotEqual(reloaded.attr[a], runconfig.attr[a])
    /\ config_file.given =>
          \A a \in AttrNames :
             ~config_file.root.attr[a].present =>
                ~NotEqual(Loaded(a), Attr(a).attrdefault)

\* ------------------------------------------------------------------------
\* Properties of merge_spanning_alignments
\* ------------------------------------------------------------------------
\* C15: anchor rule: a realigned read is counted as spanning evidence
\* exactly when its anchors on both sides of the junction are >= anchor_min
\* and, if one of them is below anchor_length, its mismatches are
\* <= anchor_mismatches; with both anchors at or beyond anchor_length the
\* mismatches the aligner let through do not matter.  The encompassing
\* counter is left alone.
C15_AnchorRule ==
    [][reads_merged' = reads_merged + 1 =>
          LET r == spanning_read'
              a5 == LeftAnchor(r)
              a3 == RightAnchor(r)
          IN /\ spanning_frags' \in {spanning_frags, spanning_frags + 1}
             /\ spanning_frags' = spanning_frags + 1 <=>
                   /\ a5 >= anchor_min
                   /\ a3 >= anchor_min
                   /\ (a5 < anchor_length \/ a3 < anchor_length)
                         => r.mismatches <= anchor_mismatches
             /\ encomp_frags' = encomp_frags]_vars

\* with the defaults 4, 8, 0: of two reads examined one was counted, and
\* the read examined last has anchors of 10 bases and 1 mismatch
C15_Witness ==
    /\ anchor_min = DEFAULT_ANCHOR_MIN
    /\ anchor_length = DEFAULT_ANCHOR_LENGTH
    /\ anchor_mismatches = DEFAULT_ANCHOR_MISMATCHES
    /\ reads_merged = 2
    /\ spanning_frags = 1
    /\ LeftAnchor(spanning_read) = 10
    /\ RightAnchor(spanning_read) = 10
    /\ spanning_read.mismatches = 1

\* ------------------------------------------------------------------------
\* Properties of determine_chimera_breakpoints
\* ------------------------------------------------------------------------
\* the extensions within the window whose every prefix respects the bound
Extensions ==
    {n \in 0..HomologyWindow :
        \A k \in 0..n : Mismatches(seq5p, seq3p, k) <= homology_mismatches}

\* the largest of them
MaximalExtension == CHOOSE n \in Extensions : \A k \in Extensions : k <= n

HomologyDone == homology.state = "done"

\* C17: the homology search respects the mismatch bound and is
\* deterministic: after every accepted step the cumulative mismatch count
\* is that of the bases accepted and is <= homology_mismatches; the search
\* ends with the maximal extension within the window, which is the whole
\* window for identical flanking sequences; and a search that cannot
\* accept one base ends with homology length 0 and the record flagged,
\* not with a failure.
C17_HomologySearch ==
    /\ homology.mismatches = Mismatches(seq5p, seq3p, homology.len)
    /\ homology.mismatches <= homology_mismatches
    /\ homology.state \in {"scanning", "done"}
    /\ HomologyDone =>
          /\ homology.len = MaximalExtension
          /\ seq5p = seq3p => homology.len = HomologyWindow
          /\ Mismatches(seq5p, seq3p, 1) > homology_mismatches =>
                (homology.len = 0 /\ homology.low_confidence)

\* a search that tolerated one mismatch and stopped inside the window at
\* the second
C17_Witness ==
    /\ HomologyDone
    /\ homology_mismatches = 1
    /\ homology.mismatches = 1
    /\ homology.len > 1
    /\ homology.len < HomologyWindow

====
